---- MODULE Spec2Model ----
(***************************************************************************)
(* Model of procfs-core/src/tty.rs: the per-line parsers                   *)
(* TttyDriver::parse_line and LineDiscipline::parse_line, and the table    *)
(* decoders TtyDrivers::from_buf_read and LineDisciplines::from_buf_read.  *)
(*                                                                         *)
(* Text is a sequence of one-character strings.  A line source is a        *)
(* sequence of items, each either a line or a read fault.  One step of the *)
(* state machine is one iteration of a decoder's `for line in r.lines()`   *)
(* loop, or its final `Ok(..)` return.                                     *)
(***************************************************************************)
EXTENDS Integers, Sequences, FiniteSets, TLC

VARIABLES
    decoder,      \* which from_buf_read was called
    source,       \* the line source r.lines(): items in order
    requested,    \* how many items the loop has pulled from the source
    drivers,      \* local `drivers` of TtyDrivers::from_buf_read (HashMap)
    disciplines,  \* local `disciplines` of LineDisciplines::from_buf_read (Vec)
    line,         \* local `line` of the latest iteration (NoLine before/without one)
    parsed,       \* what parse_line returned for `line` in the latest iteration
    result        \* the value from_buf_read returned (Running until it returns)

vars == <<decoder, source, requested, drivers, disciplines, line, parsed, result>>

-----------------------------------------------------------------------------
(* Bounds of the model *)

\* longest multi-line source
MaxLines == 3
\* most tokens after the last required one
MaxExtra == 1

-----------------------------------------------------------------------------
(* Characters and integers *)

WhiteSpace == {" ", "\t"}

Digits == {"0", "1", "2", "3", "4", "5", "6", "7", "8", "9"}

DigitVal ==
    "0" :> 0 @@ "1" :> 1 @@ "2" :> 2 @@ "3" :> 3 @@ "4" :> 4 @@
    "5" :> 5 @@ "6" :> 6 @@ "7" :> 7 @@ "8" :> 8 @@ "9" :> 9

\* isize::MAX, the magnitude of isize::MIN and usize::MAX (64-bit target), in decimal
ISIZE_MAX ==
    <<"9","2","2","3","3","7","2","0","3","6","8","5","4","7","7","5","8","0","7">>

ISIZE_MIN_MAG ==
    <<"9","2","2","3","3","7","2","0","3","6","8","5","4","7","7","5","8","0","8">>

USIZE_MAX ==
    <<"1","8","4","4","6","7","4","4","0","7","3","7","0","9","5","5","1","6","1","5">>

RECURSIVE StripZeros(_)
StripZeros(ds) ==
    IF Len(ds) > 1 /\ Head(ds) = "0" THEN StripZeros(Tail(ds)) ELSE ds

\* a > b for two digit strings without leading zeros
MagGreater(a, b) ==
    \/ Len(a) > Len(b)
    \/ /\ Len(a) = Len(b)
       /\ \E i \in 1..Len(a) :
            /\ DigitVal[a[i]] > DigitVal[b[i]]
            /\ \A j \in 1..(i - 1) : a[j] = b[j]

RECURSIVE DecVal(_)
DecVal(ds) ==
    IF ds = <<>> THEN 0
    ELSE DecVal(SubSeq(ds, 1, Len(ds) - 1)) * 10 + DigitVal[ds[Len(ds)]]

\* from_str!(isize, src) (signed) and from_str!(usize, src): the decimal integer
\* src spells, an optional sign ('-' only for a signed type) and then one or
\* more digits, the value within the type's range; no value otherwise.
from_str(signed, src) ==
    IF src = <<>> THEN [ok |-> FALSE]
    ELSE IF src \in {<<"+">>, <<"-">>} THEN [ok |-> FALSE]
    ELSE
        LET neg    == signed /\ Head(src) = "-"
            digits == IF Head(src) = "+" \/ neg THEN Tail(src) ELSE src
            mag    == StripZeros(digits)
            limit  == IF ~signed THEN USIZE_MAX
                      ELSE IF neg THEN ISIZE_MIN_MAG ELSE ISIZE_MAX
        IN  IF \E i \in 1..Len(digits) : digits[i] \notin Digits
            THEN [ok |-> FALSE]
            ELSE IF MagGreater(mag, limit) THEN [ok |-> FALSE]
            ELSE [ok |-> TRUE, v |-> IF neg THEN 0 - DecVal(mag) ELSE DecVal(mag)]

-----------------------------------------------------------------------------
(* Results and errors *)

Ok(v) == [ok |-> TRUE, val |-> v]

Err(e) == [ok |-> FALSE, err |-> e]

\* what expect!(split.next()) returns from the function when the token is absent;
\* `at` is the binding whose expect! returned
MalformedRecord(at) == [kind |-> "MalformedRecord", at |-> at]

\* what from_str!(T, s) returns from the function when s is not a T
InvalidNumber(at) == [kind |-> "InvalidNumber", at |-> at]

\* ProcError::Other(e.to_string()) built by the decoders' map_err
SourceReadError(e) == [kind |-> "SourceReadError", msg |-> e]

-----------------------------------------------------------------------------
(* Tokenizer *)

RECURSIVE SplitFrom(_, _, _, _)
SplitFrom(s, i, cur, out) ==
    IF i > Len(s)
    THEN IF cur = <<>> THEN out ELSE Append(out, cur)
    ELSE IF s[i] \in WhiteSpace
    THEN SplitFrom(s, i + 1, <<>>, IF cur = <<>> THEN out ELSE Append(out, cur))
    ELSE SplitFrom(s, i + 1, Append(cur, s[i]), out)

\* str::split_whitespace: the maximal runs of non-whitespace, in order
split_whitespace(s) == SplitFrom(s, 1, <<>>, <<>>)

\* the n-th call of Iterator::next on the tokens: present or absent
HasNext(split, n) == Len(split) >= n

\* a split at the last '-' (rsplit_once)
split_once_last(s) ==
    IF \E i \in 1..Len(s) : s[i] = "-"
    THEN LET i == CHOOSE k \in 1..Len(s) :
                     s[k] = "-" /\ \A j \in (k + 1)..Len(s) : s[j] # "-"
         IN  [some |-> TRUE, lower |-> SubSeq(s, 1, i - 1),
              upper |-> SubSeq(s, i + 1, Len(s))]
    ELSE [some |-> FALSE]

\* str::split_once("-"): the text before and after the first '-', if any
split_once(s) ==
    IF \E i \in 1..Len(s) : s[i] = "-"
    THEN LET i == CHOOSE k \in 1..Len(s) :
                     s[k] = "-" /\ \A j \in 1..(k - 1) : s[j] # "-"
         IN  [some |-> TRUE, lower |-> SubSeq(s, 1, i - 1),
              upper |-> SubSeq(s, i + 1, Len(s))]
    ELSE [some |-> FALSE]

-----------------------------------------------------------------------------
(* Line parsers *)

\* a range put in ascending order
minor_numbers_sorted(bounds) ==
    LET so == split_once(bounds)
    IN  IF so.some
        THEN LET lower == from_str(TRUE, so.lower)
                 upper == from_str(TRUE, so.upper)
             IN  IF ~lower.ok THEN Err(InvalidNumber("lower"))
                 ELSE IF ~upper.ok THEN Err(InvalidNumber("upper"))
                 ELSE IF lower.v > upper.v
                 THEN Ok([start |-> upper.v, end |-> lower.v])
                 ELSE Ok([start |-> lower.v, end |-> upper.v])
        ELSE LET single == from_str(TRUE, bounds)
             IN  IF ~single.ok THEN Err(InvalidNumber("single"))
                 ELSE Ok([start |-> single.v, end |-> single.v])

\* the block computing `minor_numbers` from the fourth token
minor_numbers(bounds) ==
    LET so == split_once(bounds)
    IN  IF so.some
        THEN LET lower == from_str(TRUE, so.lower)
                 upper == from_str(TRUE, so.upper)
             IN  IF ~lower.ok THEN Err(InvalidNumber("lower"))
                 ELSE IF ~upper.ok THEN Err(InvalidNumber("upper"))
                 ELSE Ok([start |-> lower.v, end |-> upper.v])
        ELSE LET single == from_str(TRUE, bounds)
             IN  IF ~single.ok THEN Err(InvalidNumber("single"))
                 ELSE Ok([start |-> single.v, end |-> single.v])

\* the body of TttyDriver::parse_line on the tokens of the line: split.next()
\* is called for one token after the other and the first expect! or from_str!
\* that fails returns
TttyDriver_fields(split) ==
    IF ~HasNext(split, 1) THEN Err(MalformedRecord("name"))
    ELSE IF ~HasNext(split, 2) THEN Err(MalformedRecord("node_name"))
    ELSE IF ~HasNext(split, 3) THEN Err(MalformedRecord("major_number"))
    ELSE LET major_number == from_str(TRUE, split[3])
    IN  IF ~major_number.ok THEN Err(InvalidNumber("major_number"))
    ELSE IF ~HasNext(split, 4) THEN Err(MalformedRecord("bounds"))
    ELSE LET minor == minor_numbers(split[4])
    IN  IF ~minor.ok THEN minor
    ELSE IF ~HasNext(split, 5) THEN Err(MalformedRecord("driver_type"))
    ELSE Ok([name          |-> split[1],
             node_name     |-> split[2],
             major_number  |-> major_number.v,
             minor_numbers |-> minor.val,
             driver_type   |-> split[5]])

\* a parser that gives a missing driver_type the empty text
TttyDriver_parse_line_default_type(ln) ==
    LET split == split_whitespace(ln)
    IN  IF Len(split) = 4 THEN TttyDriver_fields(Append(split, <<>>))
        ELSE TttyDriver_fields(split)

\* a parser that rejects a line with tokens after the fifth
TttyDriver_parse_line_strict(ln) ==
    LET split == split_whitespace(ln)
    IN  IF Len(split) > 5 THEN Err(MalformedRecord("extra"))
        ELSE TttyDriver_fields(split)

\* a parser that counts the tokens before it parses any number
TttyDriver_parse_line_count_first(ln) ==
    LET split == split_whitespace(ln)
    IN  IF Len(split) < 5
        THEN Err(MalformedRecord(
                 IF Len(split) = 0 THEN "name"
                 ELSE IF Len(split) = 1 THEN "node_name"
                 ELSE IF Len(split) = 2 THEN "major_number"
                 ELSE IF Len(split) = 3 THEN "bounds"
                 ELSE "driver_type"))
        ELSE TttyDriver_fields(split)

TttyDriver_parse_line(ln) == TttyDriver_fields(split_whitespace(ln))

\* a parser that reads the number as a signed integer
LineDiscipline_parse_line_signed(ln) ==
    LET split == split_whitespace(ln)
    IN  IF ~HasNext(split, 1) THEN Err(MalformedRecord("name"))
        ELSE IF ~HasNext(split, 2) THEN Err(MalformedRecord("no_string"))
        ELSE LET no == from_str(TRUE, split[2])
        IN  IF ~no.ok THEN Err(InvalidNumber("no"))
        ELSE Ok([name |-> split[1], no |-> no.v])

LineDiscipline_parse_line(ln) ==
    LET split == split_whitespace(ln)
    IN  IF ~HasNext(split, 1) THEN Err(MalformedRecord("name"))
        ELSE IF ~HasNext(split, 2) THEN Err(MalformedRecord("no_string"))
        ELSE LET no == from_str(FALSE, split[2])
        IN  IF ~no.ok THEN Err(InvalidNumber("no"))
        ELSE Ok([name |-> split[1], no |-> no.v])

-----------------------------------------------------------------------------
(* Containers *)

EmptyMap == [k \in {} |-> k]

\* a map that keeps the first record of a key (entry().or_insert)
insert_keep_first(map, k, v) ==
    [x \in DOMAIN map \cup {k} |-> IF x \in DOMAIN map THEN map[x] ELSE v]

\* HashMap::insert: the entry for the key is set, replacing any earlier one
insert(map, k, v) ==
    [x \in DOMAIN map \cup {k} |-> IF x = k THEN v ELSE map[x]]

\* a vector that grows at the front
push_front(vec, v) == <<v>> \o vec

\* Vec::push
push(vec, v) == Append(vec, v)

-----------------------------------------------------------------------------
(* Inputs *)

LineItem(l) == [ok |-> TRUE, line |-> l]

FaultItem(e) == [ok |-> FALSE, e |-> e]

RECURSIVE Join(_, _)
Join(tokens, sep) ==
    IF tokens = <<>> THEN <<>>
    ELSE IF Len(tokens) = 1 THEN tokens[1]
    ELSE tokens[1] \o sep \o Join(Tail(tokens), sep)

\* a line with one blank between tokens
Plain(tokens) == Join(tokens, <<" ">>)

\* the same tokens with leading, trailing and longer runs of whitespace
Ragged(tokens) == <<" ">> \o Join(tokens, <<"\t", " ">>) \o <<"\t">>

IsizeOver == ISIZE_MIN_MAG

UsizeOver ==
    <<"1","8","4","4","6","7","4","4","0","7","3","7","0","9","5","5","1","6","1","6">>

NameToks == {<<"a">>, <<"b">>}

NodeToks == {<<"n">>}

MajorToks ==
    {<<"5">>, <<"-","4">>, <<"+","4">>, <<"0","4">>, <<"x">>, <<"1","x">>, IsizeOver}

MinorToks ==
    {<<"0">>, <<"7">>, <<"+","7">>, <<"x">>, <<"5","x">>, IsizeOver,
     <<"1","-","3">>, <<"3","-","1">>, <<"-","5">>, <<"1","-","-","2">>,
     <<"1","-","x">>, <<"x","-","1">>, <<"1","-">>, <<"1","-","2","-","3">>,
     <<"x","-","y">>, <<"1","-">> \o IsizeOver}

TypeToks == {<<"t", ":", "s">>}

ExtraToks == {<<"e">>, <<"7">>}

NoToks ==
    {<<"0">>, <<"2","7">>, <<"0","0","7">>, <<"+","3">>, <<"-","3">>, <<"x">>,
     <<"3","x">>, UsizeOver}

TtyPool(i) ==
    IF i = 1 THEN NameToks
    ELSE IF i = 2 THEN NodeToks
    ELSE IF i = 3 THEN MajorToks
    ELSE IF i = 4 THEN MinorToks
    ELSE IF i = 5 THEN TypeToks
    ELSE ExtraToks

LdPool(i) == IF i = 1 THEN NameToks ELSE IF i = 2 THEN NoToks ELSE ExtraToks

RECURSIVE TtyTokSeqs(_)
TtyTokSeqs(n) ==
    IF n = 0 THEN {<<>>}
    ELSE {Append(s, t) : s \in TtyTokSeqs(n - 1), t \in TtyPool(n)}

RECURSIVE LdTokSeqs(_)
LdTokSeqs(n) ==
    IF n = 0 THEN {<<>>}
    ELSE {Append(s, t) : s \in LdTokSeqs(n - 1), t \in LdPool(n)}

\* single lines of every shape: 0 .. 5 + MaxExtra tokens in tty-driver layout,
\* 0 .. 2 + MaxExtra tokens in line-discipline layout, in both spacings
RichLines ==
    LET toks == UNION {TtyTokSeqs(n) : n \in 0..(5 + MaxExtra)}
                  \cup UNION {LdTokSeqs(n) : n \in 0..(2 + MaxExtra)}
    IN  {Plain(ts) : ts \in toks} \cup {Ragged(ts) : ts \in toks}

\* the items multi-line sources are made of
FewItems ==
    {LineItem(Plain(ts)) : ts \in
        {<<<<"a">>, <<"n">>, <<"5">>, <<"0">>, <<"t",":","s">>>>,
         <<<<"a">>, <<"n">>, <<"4">>, <<"1","-","3">>, <<"t",":","s">>>>,
         <<<<"b">>, <<"n">>, <<"5">>, <<"3","-","1">>, <<"t",":","s">>>>,
         <<<<"a">>, <<"n">>, <<"x">>, <<"0">>, <<"t",":","s">>>>,
         <<<<"a">>, <<"n">>, <<"5">>>>,
         <<<<"a">>, <<"0">>>>,
         <<<<"a">>, <<"2","7">>>>,
         <<<<"b">>, <<"0">>>>,
         <<<<"a">>, <<"x">>>>,
         <<<<"a">>>>}}
    \cup {LineItem(<<>>), LineItem(<<" ", "\t">>)}
    \cup {FaultItem("io1"), FaultItem("io2")}

RECURSIVE ItemSeqs(_)
ItemSeqs(n) ==
    IF n = 0 THEN {<<>>}
    ELSE {Append(s, it) : s \in ItemSeqs(n - 1), it \in FewItems}

Sources ==
    UNION {ItemSeqs(n) : n \in 0..MaxLines} \cup {<<LineItem(l)>> : l \in RichLines}

-----------------------------------------------------------------------------
(* The decoders *)

Running == [done |-> FALSE]

NoLine == [some |-> FALSE]

SomeLine(l) == [some |-> TRUE, text |-> l]

Init ==
    /\ decoder \in {"TtyDrivers", "LineDisciplines"}
    /\ source \in Sources
    /\ requested = 0
    /\ drivers = EmptyMap
    /\ disciplines = <<>>
    /\ line = NoLine
    /\ parsed = NoLine
    /\ result = Running

\* a loop that passes over a line without tokens
TtyDrivers_iter_skip_blank ==
    /\ decoder = "TtyDrivers"
    /\ result = Running
    /\ requested < Len(source)
    /\ requested' = requested + 1
    /\ LET item == source[requested + 1]
       IN  IF ~item.ok
           THEN /\ result' = Err(SourceReadError(item.e))
                /\ drivers' = EmptyMap
                /\ line' = NoLine
                /\ parsed' = NoLine
           ELSE IF split_whitespace(item.line) = <<>>
           THEN /\ line' = NoLine
                /\ parsed' = NoLine
                /\ UNCHANGED <<drivers, result>>
           ELSE LET driver == TttyDriver_parse_line(item.line)
                IN  /\ line' = SomeLine(item.line)
                    /\ parsed' = driver
                    /\ IF ~driver.ok
                       THEN /\ result' = Err(driver.err)
                            /\ drivers' = EmptyMap
                       ELSE /\ drivers' = insert(drivers, driver.val.name, driver.val)
                            /\ result' = result
    /\ UNCHANGED <<decoder, source, disciplines>>

\* one iteration of the loop of TtyDrivers::from_buf_read
TtyDrivers_iter ==
    /\ decoder = "TtyDrivers"
    /\ result = Running
    /\ requested < Len(source)
    /\ requested' = requested + 1
    /\ LET item == source[requested + 1]
       IN  IF ~item.ok
           THEN /\ result' = Err(SourceReadError(item.e))
                /\ drivers' = EmptyMap
                /\ line' = NoLine
                /\ parsed' = NoLine
           ELSE LET driver == TttyDriver_parse_line(item.line)
                IN  /\ line' = SomeLine(item.line)
                    /\ parsed' = driver
                    /\ IF ~driver.ok
                       THEN /\ result' = Err(driver.err)
                            /\ drivers' = EmptyMap
                       ELSE /\ drivers' = insert(drivers, driver.val.name, driver.val)
                            /\ result' = result
    /\ UNCHANGED <<decoder, source, disciplines>>

\* the source is exhausted: Ok(TtyDrivers { drivers })
TtyDrivers_return ==
    /\ decoder = "TtyDrivers"
    /\ result = Running
    /\ requested = Len(source)
    /\ result' = Ok(drivers)
    /\ drivers' = EmptyMap
    /\ UNCHANGED <<decoder, source, requested, disciplines, line, parsed>>

\* a loop that goes on to the next line when a line does not parse
LineDisciplines_iter_skip ==
    /\ decoder = "LineDisciplines"
    /\ result = Running
    /\ requested < Len(source)
    /\ requested' = requested + 1
    /\ LET item == source[requested + 1]
       IN  IF ~item.ok
           THEN /\ result' = Err(SourceReadError(item.e))
                /\ disciplines' = <<>>
                /\ line' = NoLine
                /\ parsed' = NoLine
           ELSE LET discipline == LineDiscipline_parse_line(item.line)
                IN  /\ line' = SomeLine(item.line)
                    /\ parsed' = discipline
                    /\ result' = result
                    /\ IF ~discipline.ok
                       THEN disciplines' = disciplines
                       ELSE disciplines' = push(disciplines, discipline.val)
    /\ UNCHANGED <<decoder, source, drivers>>

\* one iteration of the loop of LineDisciplines::from_buf_read
LineDisciplines_iter ==
    /\ decoder = "LineDisciplines"
    /\ result = Running
    /\ requested < Len(source)
    /\ requested' = requested + 1
    /\ LET item == source[requested + 1]
       IN  IF ~item.ok
           THEN /\ result' = Err(SourceReadError(item.e))
                /\ disciplines' = <<>>
                /\ line' = NoLine
                /\ parsed' = NoLine
           ELSE LET discipline == LineDiscipline_parse_line(item.line)
                IN  /\ line' = SomeLine(item.line)
                    /\ parsed' = discipline
                    /\ IF ~discipline.ok
                       THEN /\ result' = Err(discipline.err)
                            /\ disciplines' = <<>>
                       ELSE /\ disciplines' = push(disciplines, discipline.val)
                            /\ result' = result
    /\ UNCHANGED <<decoder, source, drivers>>

\* the source is exhausted: Ok(LineDisciplines { disciplines })
LineDisciplines_return ==
    /\ decoder = "LineDisciplines"
    /\ result = Running
    /\ requested = Len(source)
    /\ result' = Ok(disciplines)
    /\ disciplines' = <<>>
    /\ UNCHANGED <<decoder, source, requested, drivers, line, parsed>>

Next ==
    \/ TtyDrivers_iter
    \/ TtyDrivers_return
    \/ LineDisciplines_iter
    \/ LineDisciplines_return

Spec == Init /\ [][Next]_vars

-----------------------------------------------------------------------------
(* Vocabulary of the properties *)

Returned == result # Running

IsTty == decoder = "TtyDrivers"

IsLd == decoder = "LineDisciplines"

\* the line parser of the decoder that is running
ParseLine(l) ==
    IF IsTty THEN TttyDriver_parse_line(l) ELSE LineDiscipline_parse_line(l)

\* item i of the source cannot be read or does not parse
Fails(i) == ~source[i].ok \/ ~ParseLine(source[i].line).ok

\* the error item i gives rise to
ItemError(i) ==
    IF ~source[i].ok THEN SourceReadError(source[i].e)
    ELSE ParseLine(source[i].line).err

FirstFail(i) == Fails(i) /\ \A j \in 1..(i - 1) : ~Fails(j)

AllWellFormed == \A i \in 1..Len(source) : ~Fails(i)

NameOf(i) == split_whitespace(source[i].line)[1]

RecordOf(i) == ParseLine(source[i].line).val

-----------------------------------------------------------------------------
(* C1: when some item of the source cannot be read or does not parse, the
   decode (either decoder) returns an error and no table; the error is that
   of the earliest failing item, a SourceReadError carrying the fault for a
   read fault and the line parser's error otherwise; and no item after the
   failing one is ever requested from the source. *)
C1_HaltOnFirstError ==
    \A i \in 1..Len(source) :
        FirstFail(i) =>
            /\ requested <= i
            /\ ~Returned => requested < i
            /\ Returned =>
                 /\ requested = i
                 /\ result = Err(ItemError(i))
                 /\ drivers = EmptyMap /\ disciplines = <<>>

\* a decode has ended on the second of three items, and the item after it
\* would have failed with a different error
C1_Witness ==
    /\ Len(source) = 3
    /\ Returned
    /\ FirstFail(2)
    /\ Fails(3)
    /\ ItemError(3) # ItemError(2)

(* C2: for well-formed tty-driver lines the decode succeeds, the key set of
   the table is exactly the set of names in the input, each key maps to the
   record parsed from the last line carrying that name, so lines with
   pairwise distinct names give as many entries as lines and no lines give
   the empty table. *)
C2_LastWriteWins ==
    (IsTty /\ Returned /\ AllWellFormed) =>
        /\ result.ok
        /\ DOMAIN result.val = {NameOf(i) : i \in 1..Len(source)}
        /\ \A i \in 1..Len(source) :
             (\A j \in (i + 1)..Len(source) : NameOf(j) # NameOf(i))
                 => result.val[NameOf(i)] = RecordOf(i)
        /\ (\A i, j \in 1..Len(source) : i # j => NameOf(i) # NameOf(j))
                 => Cardinality(DOMAIN result.val) = Len(source)
        /\ Len(source) = 0 => result.val = EmptyMap

\* a table was built from three lines of which the first and the last carry
\* the same name and different records
C2_Witness ==
    /\ IsTty /\ Returned /\ AllWellFormed
    /\ Len(source) = 3
    /\ NameOf(1) = NameOf(3)
    /\ NameOf(2) # NameOf(1)
    /\ RecordOf(1) # RecordOf(3)
    /\ result.ok

(* C3: for well-formed line-discipline lines the decode succeeds with as many
   records as lines, the i-th record being the parse of the i-th line;
   records with equal names or numbers are all kept and no lines give the
   empty sequence. *)
C3_OrderPreserved ==
    (IsLd /\ Returned /\ AllWellFormed) =>
        /\ result.ok
        /\ Len(result.val) = Len(source)
        /\ \A i \in 1..Len(source) : result.val[i] = RecordOf(i)

\* a sequence was built from three lines, two of them the same line and one
\* sharing its name with a different number
C3_Witness ==
    /\ IsLd /\ Returned /\ AllWellFormed
    /\ Len(source) = 3
    /\ source[1] = source[3]
    /\ NameOf(2) = NameOf(1)
    /\ RecordOf(2) # RecordOf(1)
    /\ result.ok

-----------------------------------------------------------------------------
(* Vocabulary of the properties about one line: the line of the latest
   iteration and what its parser returned *)

TtyLine == IsTty /\ line.some

LdLine == IsLd /\ line.some

Toks == split_whitespace(line.text)

NTok == Len(Toks)

\* the latest line failed with this kind of error and the decode returned it
Failed(kind) ==
    /\ ~parsed.ok
    /\ parsed.err.kind = kind
    /\ result = Err(parsed.err)

HasDash(t) == \E i \in 1..Len(t) : t[i] = "-"

FirstDash(t) == CHOOSE i \in 1..Len(t) : t[i] = "-" /\ \A j \in 1..(i - 1) : t[j] # "-"

Before(t) == SubSeq(t, 1, FirstDash(t) - 1)

After(t) == SubSeq(t, FirstDash(t) + 1, Len(t))

\* the sides of a minor-number field: around the first '-', or the field itself
Sides(t) == IF HasDash(t) THEN {Before(t), After(t)} ELSE {t}

NonDigit(t) == \E i \in 1..Len(t) : t[i] \notin Digits

\* a character that is neither a digit nor one of `signs` in first place
BadChar(t, signs) ==
    \E i \in 1..Len(t) : t[i] \notin Digits /\ ~(i = 1 /\ t[i] \in signs)

\* a non-negative decimal integer that an isize holds
Decimal(t) ==
    /\ t # <<>>
    /\ ~NonDigit(t)
    /\ ~MagGreater(StripZeros(t), ISIZE_MAX)

ValidInt(t) == from_str(TRUE, t).ok

ValidBound(t) ==
    IF HasDash(t) THEN ValidInt(Before(t)) /\ ValidInt(After(t)) ELSE ValidInt(t)

-----------------------------------------------------------------------------
\* C4 as stated: a tty-driver line with fewer than 5 tokens, and a
\* line-discipline line with fewer than 2, fails with MalformedRecord
\* whatever its tokens are.
C4_Original ==
    /\ (TtyLine /\ NTok < 5) => Failed("MalformedRecord")
    /\ (LdLine /\ NTok < 2) => Failed("MalformedRecord")

(* C4, amended: a tty-driver line with fewer than 5 tokens fails the decode
   and no table is returned; the kind is InvalidNumber when the third token
   is present and no valid integer, or the fourth is present and no valid
   bound, and MalformedRecord otherwise.  A line-discipline line with fewer
   than 2 tokens fails the decode with MalformedRecord. *)
C4_ShortLineFails ==
    /\ (TtyLine /\ NTok < 5) =>
         Failed(IF \/ NTok >= 3 /\ ~ValidInt(Toks[3])
                   \/ NTok >= 4 /\ ~ValidBound(Toks[4])
                THEN "InvalidNumber" ELSE "MalformedRecord")
    /\ (LdLine /\ NTok < 2) => Failed("MalformedRecord")

\* a tty-driver line of four tokens with valid numbers failed for its missing
\* driver_type
C4_Witness ==
    /\ TtyLine /\ NTok = 4
    /\ ValidInt(Toks[3]) /\ ValidBound(Toks[4])
    /\ Failed("MalformedRecord")

\* C5 as stated: a numeric field (major, either side of the minor field,
\* line-discipline number) with any non-digit character fails with
\* InvalidNumber.
C5_Original ==
    /\ (TtyLine /\ NTok >= 3 /\ NonDigit(Toks[3])) => Failed("InvalidNumber")
    /\ (TtyLine /\ NTok >= 4 /\ \E sd \in Sides(Toks[4]) : NonDigit(sd))
           => Failed("InvalidNumber")
    /\ (LdLine /\ NTok >= 2 /\ NonDigit(Toks[2])) => Failed("InvalidNumber")

(* C5, amended: a numeric field with a character that is neither a digit nor
   a sign in first place ('+' or '-' for the major number and the sides of
   the minor field, '+' alone for the line-discipline number) fails with
   InvalidNumber; no such line is parsed successfully. *)
C5_NonNumericFails ==
    /\ (TtyLine /\ NTok >= 3 /\ BadChar(Toks[3], {"+", "-"}))
           => Failed("InvalidNumber")
    /\ (TtyLine /\ NTok >= 4 /\ \E sd \in Sides(Toks[4]) : BadChar(sd, {"+", "-"}))
           => Failed("InvalidNumber")
    /\ (LdLine /\ NTok >= 2 /\ BadChar(Toks[2], {"+"})) => Failed("InvalidNumber")

\* a full tty-driver line with a valid major number failed for the letter in
\* the upper side of its minor field
C5_Witness ==
    /\ TtyLine /\ NTok >= 5
    /\ ValidInt(Toks[3])
    /\ HasDash(Toks[4])
    /\ ValidInt(Before(Toks[4]))
    /\ BadChar(After(Toks[4]), {"+", "-"})
    /\ Failed("InvalidNumber")

(* C6: in a tty-driver line that is valid otherwise, a fourth token that is
   one non-negative decimal integer k gives the range [k, k], and a fourth
   token a-b of two non-negative decimal integers gives lower a and upper b
   as written, be a <= b or a > b. *)
C6_RangeAsWritten ==
    (TtyLine /\ NTok >= 5 /\ ValidInt(Toks[3])) =>
        LET b == Toks[4]
        IN  /\ Decimal(b) =>
                 /\ parsed.ok
                 /\ parsed.val.minor_numbers = [start |-> DecVal(b), end |-> DecVal(b)]
            /\ (HasDash(b) /\ Decimal(Before(b)) /\ Decimal(After(b))) =>
                 /\ parsed.ok
                 /\ parsed.val.minor_numbers =
                        [start |-> DecVal(Before(b)), end |-> DecVal(After(b))]

\* a line with the bounds 3-1 was parsed
C6_Witness ==
    /\ TtyLine /\ parsed.ok
    /\ HasDash(Toks[4])
    /\ Decimal(Before(Toks[4])) /\ Decimal(After(Toks[4]))
    /\ parsed.val.minor_numbers.start > parsed.val.minor_numbers.end

-----------------------------------------------------------------------------
\* item i is a line without tokens
Blank(i) == source[i].ok /\ split_whitespace(source[i].line) = <<>>

(* C7: a line without tokens (empty or whitespace only), wherever it stands
   in the input, is never passed over, so a source that holds one never
   produces a table (either decoder): the decode fails at that line with
   MalformedRecord, every item before it having been read and parsed; had an
   earlier item failed, the decode would have ended there (C1). *)
C7_BlankLineFails ==
    \A i \in 1..Len(source) :
        Blank(i) =>
            /\ requested <= i
            /\ Returned => ~result.ok
            /\ (Returned /\ \A j \in 1..(i - 1) : ~Fails(j)) =>
                 /\ result = Err(MalformedRecord("name"))
                 /\ requested = i
            /\ \A k \in 1..(i - 1) :
                 (Returned /\ FirstFail(k)) => result = Err(ItemError(k))

\* the tty-driver decode has ended on a blank line that stands between two
\* well-formed lines
C7_Witness ==
    /\ IsTty /\ Returned
    /\ Len(source) = 3
    /\ ~Fails(1) /\ Blank(2) /\ ~Fails(3)
    /\ result = Err(MalformedRecord("name"))

(* C8: tokens after the fifth (tty-driver) or the second (line-discipline)
   change nothing: when a line L parses, L followed by more tokens parses to
   the same record. *)
C8_ExtraTokensIgnored ==
    /\ TtyLine =>
         \A k \in 5..(NTok - 1) :
             TttyDriver_parse_line(Plain(SubSeq(Toks, 1, k))).ok =>
                 parsed = TttyDriver_parse_line(Plain(SubSeq(Toks, 1, k)))
    /\ LdLine =>
         \A k \in 2..(NTok - 1) :
             LineDiscipline_parse_line(Plain(SubSeq(Toks, 1, k))).ok =>
                 parsed = LineDiscipline_parse_line(Plain(SubSeq(Toks, 1, k)))

\* a tty-driver line of more than five tokens was parsed
C8_Witness ==
    /\ TtyLine /\ NTok > 5
    /\ TttyDriver_parse_line(Plain(SubSeq(Toks, 1, 5))).ok
    /\ parsed.ok

(* C9: the minor-number field is split at its first '-' only, the text before
   it being the lower bound and all the text after it the upper bound, each
   parsed as a signed integer.  So a field that begins with '-' has an empty
   lower side and fails with InvalidNumber, and a field a--b gives the range
   [a, -b]. *)
C9_SplitAtFirstDash ==
    (TtyLine /\ NTok >= 4) =>
        LET b == Toks[4]
        IN  /\ (b # <<>> /\ b[1] = "-") => Failed("InvalidNumber")
            /\ (NTok >= 5 /\ ValidInt(Toks[3]) /\ HasDash(b)) =>
                 /\ parsed.ok <=> (ValidInt(Before(b)) /\ ValidInt(After(b)))
                 /\ parsed.ok => parsed.val.minor_numbers =
                        [start |-> from_str(TRUE, Before(b)).v,
                         end   |-> from_str(TRUE, After(b)).v]
                 /\ \A i \in 2..(Len(b) - 2) :
                      ( /\ Decimal(SubSeq(b, 1, i - 1))
                        /\ b[i] = "-" /\ b[i + 1] = "-"
                        /\ Decimal(SubSeq(b, i + 2, Len(b))) ) =>
                          /\ parsed.ok
                          /\ parsed.val.minor_numbers =
                                 [start |-> DecVal(SubSeq(b, 1, i - 1)),
                                  end   |-> 0 - DecVal(SubSeq(b, i + 2, Len(b)))]

\* a line with the bounds 1--2 was parsed to a range that ends at -2
C9_Witness ==
    /\ TtyLine /\ NTok >= 5
    /\ Toks[4] = <<"1", "-", "-", "2">>
    /\ parsed.ok
    /\ parsed.val.minor_numbers = [start |-> 1, end |-> -2]

\* the first step of TttyDriver::parse_line that fails on these tokens, as the
\* error it returns, in the order name, node_name, major present, major an
\* integer, minor field present, lower bound, upper bound, driver_type
FirstFailingStep(toks) ==
    LET n == Len(toks)
    IN  IF n < 1 THEN Err(MalformedRecord("name"))
        ELSE IF n < 2 THEN Err(MalformedRecord("node_name"))
        ELSE IF n < 3 THEN Err(MalformedRecord("major_number"))
        ELSE IF ~ValidInt(toks[3]) THEN Err(InvalidNumber("major_number"))
        ELSE IF n < 4 THEN Err(MalformedRecord("bounds"))
        ELSE IF HasDash(toks[4]) /\ ~ValidInt(Before(toks[4]))
        THEN Err(InvalidNumber("lower"))
        ELSE IF HasDash(toks[4]) /\ ~ValidInt(After(toks[4]))
        THEN Err(InvalidNumber("upper"))
        ELSE IF ~HasDash(toks[4]) /\ ~ValidInt(toks[4])
        THEN Err(InvalidNumber("single"))
        ELSE IF n < 5 THEN Err(MalformedRecord("driver_type"))
        ELSE [ok |-> TRUE]

(* C10: TttyDriver::parse_line reports the first step that fails, from left
   to right.  So a line whose third token is no valid integer fails with
   InvalidNumber even when the fourth or fifth token is missing, and a line
   whose fourth token is no valid bound fails with InvalidNumber even when
   the fifth is missing. *)
C10_LeftToRight ==
    TtyLine =>
        /\ parsed.ok <=> FirstFailingStep(Toks).ok
        /\ ~parsed.ok => (parsed = FirstFailingStep(Toks) /\ result = parsed)
        /\ (NTok >= 3 /\ ~ValidInt(Toks[3])) => Failed("InvalidNumber")
        /\ (NTok >= 4 /\ ValidInt(Toks[3]) /\ ~ValidBound(Toks[4]))
               => Failed("InvalidNumber")

\* a line of three tokens failed for its third token, no integer
C10_Witness ==
    /\ TtyLine /\ NTok = 3
    /\ ~ValidInt(Toks[3])
    /\ Failed("InvalidNumber")

====
